---------------------------- MODULE Spec2Model ----------------------------
(***************************************************************************)
(* The request-execution pipeline of app/common/network.js: send(),        *)
(* _actuallySend() with its IPv4 fallback, the transport callback, the     *)
(* single cancellation slot (cancelRequestFunction) and the Responses the  *)
(* pipeline creates.                                                       *)
(***************************************************************************)
EXTENDS Integers, Sequences, FiniteSets, TLC

(***************************************************************************)
(* Bounds of the model.                                                    *)
(***************************************************************************)
\* Date.now() runs from 0 to MaxTime.
MaxTime == 1
\* cancelCurrentRequest() is invoked at most MaxCancels times.
MaxCancels == 1
\* No send starts more than MaxAttempts invocations of _actuallySend.
MaxAttempts == 3
\* A workspace holds at most MaxCerts certificates.
MaxCerts == 2
\* A request has at most MaxHeaders headers.
MaxHeaders == 3
\* A stored request whose mime type is updated has at most MaxStoredHeaders headers.
MaxStoredHeaders == 4

\* The requests that are sent, one send() call each.
Sends == {"req_1", "req_2"}

VARIABLES
    request,                \* the stored requests: their url and headers
    workspace,              \* the workspace's certificates, in list order
    newRequest,             \* what the last updateMimeType of each request returned
    pc,                     \* where each send's control flow is suspended
    attempts,               \* invocations of _actuallySend made for each send
    forceIPv4,              \* the forceIPv4 argument of the current invocation
    promise,                \* promise[s][0]: send()'s; promise[s][a]: the a-th _actuallySend's
    req,                    \* req[s][a]: the transport call of the a-th invocation:
                            \* "none", "inflight", "aborted", or what it called back
                            \* with: "ok" or the error's code
    frame,                  \* the locals of each send's current invocation
    cancelRequestFunction,  \* the module-level slot, network.js:17
    dbQueue,                \* models.response.create calls not yet completed
    responses,              \* the Responses created, per parent request
    dispatchLog,            \* the calls networkRequest has received, in order
    cookieJarDoc,           \* the cookies of the stored CookieJar document
    jarUpdates,             \* models.cookieJar.update calls completed, per send
    now,                    \* Date.now()
    cancels                 \* invocations of cancelCurrentRequest so far

docs == <<request, workspace, newRequest>>

vars == <<request, workspace, newRequest, pc, attempts, forceIPv4, promise, req, frame, cancelRequestFunction,
          dbQueue, responses, dispatchLog, cookieJarDoc, jarUpdates, now, cancels>>

(***************************************************************************)
(* Values.                                                                 *)
(***************************************************************************)
\* Imported from constants.js at network.js:9: a status code no server sends.
STATUS_CODE_RENDER_FAILED == -333

\* The errors the transport passes to its callback: err.code and err.toString().
ReachabilityErrors ==
    { [code |-> "ECONNREFUSED", text |-> "Error: connect ECONNREFUSED"],
      [code |-> "EHOSTUNREACH", text |-> "Error: connect EHOSTUNREACH"],
      [code |-> "ENETUNREACH",  text |-> "Error: connect ENETUNREACH"] }

OtherErrors ==
    { [code |-> "ETIMEDOUT", text |-> "Error: ETIMEDOUT"],
      [code |-> "HPE_INVALID_CONSTANT", text |-> "Error: Parse Error"] }

TransportErrors == ReachabilityErrors \cup OtherErrors

\* new Error('Cancelled'), network.js:259
CancelledError == [code |-> "", text |-> "Error: Cancelled"]

\* What fs.readFileSync throws in _buildRequestConfig.
FileError == "ENOENT: no such file or directory"
\* What getRenderedRequest throws.
RenderError == "Failed to render"

Pending == [state |-> "pending"]
Resolved(v) == [state |-> "resolved", value |-> v]
Rejected(e) == [state |-> "rejected", value |-> e]

NoError == [code |-> "", text |-> ""]

(***************************************************************************)
(* Urls, as urlParse (network.js:2) reads them: protocol, hostname and     *)
(* port, each "" when the url does not give it.                            *)
(***************************************************************************)
Url(protocol, hostname, port) ==
    [protocol |-> protocol, hostname |-> hostname, port |-> port]
NoUrl == Url("", "", "")

Hostnames == {"a.com", "b.com"}
Ports == {"", "0", "443", "8443"}

\* setDefaultProtocol, network.js:11: the scheme is added when there is none.
SetDefaultProtocol(url, defaultProto) ==
    IF url.protocol = "" THEN [url EXCEPT !.protocol = defaultProto] ELSE url

\* config.url as prepareUrlForSending leaves it, network.js:93.
PrepareUrl(url) == SetDefaultProtocol(url, "http:")

\* parseInt on a port of a parsed url: NaN for a missing port.
ParseInt(port) ==
    CASE port = "0"    -> [nan |-> FALSE, value |-> 0]
      [] port = "443"  -> [nan |-> FALSE, value |-> 443]
      [] port = "8443" -> [nan |-> FALSE, value |-> 8443]
      [] OTHER         -> [nan |-> TRUE, value |-> 0]

\* parseInt(port) || 443, network.js:136-137: NaN and 0 are falsy.
AssumedPort(port) ==
    LET n == ParseInt(port) IN IF n.nan \/ n.value = 0 THEN 443 ELSE n.value

\* A cookie of the jar: what setCookieSync(value, url) stores for a value it
\* can parse, the url's host being the cookie's domain.
Cookie(value, url) == [value |-> value, domain |-> url.hostname]

\* urlParse(config.url).host: the hostname, and the port when there is one.
HostOf(url) == IF url.port = "" THEN url.hostname ELSE url.hostname \o ":" \o url.port

(***************************************************************************)
(* Headers.  A request's headers are a list of name/value entries, the     *)
(* name "" standing for an entry without a name.  config.headers is an     *)
(* object: its keys are distinct, compared as they are spelled, and are    *)
(* kept in the order they were first set.                                  *)
(***************************************************************************)
Header(name, value) == [name |-> name, value |-> value]

\* String.prototype.toLowerCase on the header names that occur.
ToLowerCase(name) ==
    CASE name \in {"Host", "host"}                   -> "host"
      [] name \in {"Cookie", "cookie"}               -> "cookie"
      [] name \in {"Content-Type", "content-tYPE"}   -> "content-type"
      [] name = "X-A"                                -> "x-a"
      [] OTHER                                       -> name

\* headers[name] = value
SetProperty(headers, name, value) ==
    IF \E i \in DOMAIN headers : headers[i].name = name
    THEN [i \in DOMAIN headers |->
            IF headers[i].name = name THEN Header(name, value) ELSE headers[i]]
    ELSE Append(headers, Header(name, value))

\* The loop of network.js:82-87: entries without a name are skipped.
RECURSIVE CopyHeaders(_, _)
CopyHeaders(headers, rendered) ==
    IF rendered = <<>> THEN headers
    ELSE CopyHeaders(IF Head(rendered).name # ""
                     THEN SetProperty(headers, Head(rendered).name, Head(rendered).value)
                     ELSE headers,
                     Tail(rendered))

\* SetHostHeader, were the host set only when no header is spelled "host".
SetHostHeaderIfAbsent(headers, url) ==
    IF \E i \in DOMAIN headers : headers[i].name = "host" THEN headers
    ELSE Append(headers, Header("host", HostOf(url)))

\* config.headers.host = urlParse(config.url).host, network.js:94
SetHostHeader(headers, url) == SetProperty(headers, "host", HostOf(url))

\* _buildRequestConfig, network.js:80-96: the headers and the url of the
\* config, no patch overriding either.
BuildRequestConfig(renderedRequest) ==
    LET url == PrepareUrl(renderedRequest.url)
    IN  [url |-> url,
         headers |-> SetHostHeader(CopyHeaders(<<>>, renderedRequest.headers), url)]

\* ConfigOf, were the config of the attempt before kept for the retry.
ConfigKept(previous, built) == IF previous = <<>> THEN built ELSE previous

\* config = _buildRequestConfig(...), network.js:108-117: the headers of this
\* attempt's config, given those of the attempt before (none: <<>>).
ConfigOf(previous, built) == built

\* cookieHeaderValueForUri(jar, url), network.js:155: the values of the jar's
\* cookies for the url's host, joined by "; ".
CookieValues == <<"s=0", "t=0", "a=1", "b=2">>
RECURSIVE JoinCookies(_, _)
JoinCookies(values, present) ==
    IF values = <<>> THEN ""
    ELSE LET rest == JoinCookies(Tail(values), present)
         IN  IF Head(values) \notin present THEN rest
             ELSE IF rest = "" THEN Head(values)
             ELSE Head(values) \o "; " \o rest
CookieHeaderValueForUri(jar, url) ==
    JoinCookies(CookieValues, {c.value : c \in {d \in jar : d.domain = url.hostname}})

\* Object.keys(config.headers).find(k => k.toLowerCase() === 'cookie'),
\* network.js:154: the index of the key, 0 when there is none.
ExistingCookieHeader(headers) ==
    LET hits == {i \in DOMAIN headers : ToLowerCase(headers[i].name) = "cookie"}
    IN  IF hits = {} THEN 0 ELSE CHOOSE i \in hits : \A j \in hits : i <= j

\* AddCookieHeader, were the header found replaced and not appended to.
AddCookieHeaderReplacing(headers, cookieString) ==
    LET i == ExistingCookieHeader(headers)
    IN  IF cookieString # "" /\ i # 0
        THEN [headers EXCEPT ![i].value = cookieString]
        ELSE IF cookieString # ""
        THEN SetProperty(headers, "Cookie", cookieString)
        ELSE headers

\* network.js:157-161
AddCookieHeader(headers, cookieString) ==
    LET i == ExistingCookieHeader(headers)
    IN  IF cookieString # "" /\ i # 0
        THEN [headers EXCEPT ![i].value = @ \o "; " \o cookieString]
        ELSE IF cookieString # ""
        THEN SetProperty(headers, "Cookie", cookieString)
        ELSE headers

(***************************************************************************)
(* updateMimeType of the request model.  The headers of a stored request   *)
(* may hold entries without a name and entries that are null.  With a mime *)
(* type, the first entry named Content-Type in any case has its value      *)
(* replaced, and an entry Content-Type is added when there is none; with   *)
(* an empty mime type or null ("") that entry is removed.                  *)
(***************************************************************************)
NoName == [bad |-> TRUE]
NullEntry == [null |-> TRUE]
MimeTypes == {"", "text/html", "application/json"}
NotUpdated == [mimeType |-> "", headers |-> <<>>, updated |-> FALSE]

IsContentType(header) ==
    "name" \in DOMAIN header /\ ToLowerCase(header.name) = "content-type"

ContentTypeHeader(headers) ==
    LET hits == {i \in DOMAIN headers : IsContentType(headers[i])}
    IN  IF hits = {} THEN 0 ELSE CHOOSE i \in hits : \A j \in hits : i <= j

\* UpdateMimeType, were the entry replaced by one spelled Content-Type.
UpdateMimeTypeRenaming(headers, mimeType) ==
    LET i == ContentTypeHeader(headers)
    IN  IF mimeType = ""
        THEN [k \in 1..(Len(headers) - (IF i = 0 THEN 0 ELSE 1)) |->
                IF i = 0 \/ k < i THEN headers[k] ELSE headers[k + 1]]
        ELSE IF i # 0 THEN [headers EXCEPT ![i] = Header("Content-Type", mimeType)]
        ELSE Append(headers, Header("Content-Type", mimeType))

UpdateMimeType(headers, mimeType) ==
    LET i == ContentTypeHeader(headers)
    IN  IF mimeType = ""
        THEN [k \in 1..(Len(headers) - (IF i = 0 THEN 0 ELSE 1)) |->
                IF i = 0 \/ k < i THEN headers[k] ELSE headers[k + 1]]
        ELSE IF i # 0 THEN [headers EXCEPT ![i].value = mimeType]
        ELSE Append(headers, Header("Content-Type", mimeType))

(***************************************************************************)
(* Certificates of the workspace and their selection, network.js:131-149.  *)
(***************************************************************************)
Certificate(hostname, port, disabled) ==
    LET name == hostname \o ":" \o port \o (IF disabled THEN " off" ELSE " on")
    IN  [host |-> Url("", hostname, port), disabled |-> disabled,
         cert |-> "cert " \o name, key |-> "key " \o name,
         pfx |-> "", passphrase |-> "secret " \o name]

Certificates ==
    { Certificate(h, p, d) : h \in Hostnames, p \in Ports, d \in BOOLEAN }

\* Buffer.from(x, 'base64') for a value that is set, null otherwise.
FromBase64(x) == IF x = "" THEN "null" ELSE "decoded " \o x

\* The predicate handed to find, network.js:132-141.
CertificateMatches(certificate, hostname, port) ==
    LET c == SetDefaultProtocol(certificate.host, "https:")
    IN  c.hostname = hostname /\ AssumedPort(c.port) = AssumedPort(port)

\* Array.prototype.find: the first element the predicate holds of, by index;
\* 0 when there is none.
FindCertificate(certificates, hostname, port) ==
    LET hits == { i \in 1..Len(certificates) :
                    CertificateMatches(certificates[i], hostname, port) }
    IN  IF hits = {} THEN 0 ELSE CHOOSE i \in hits : \A j \in hits : i <= j

\* The config without cert, key, pfx and passphrase.
NoTls == [set |-> FALSE, cert |-> "null", key |-> "null", pfx |-> "null",
          passphrase |-> "null"]

\* network.js:143-149
TlsOf(certificate) ==
    [set |-> TRUE, cert |-> FromBase64(certificate.cert),
     key |-> FromBase64(certificate.key), pfx |-> FromBase64(certificate.pfx),
     passphrase |-> IF certificate.passphrase = "" THEN "null"
                    ELSE certificate.passphrase]

\* Applies, were the disabled flag not looked at.
AppliesAlways(certificate) == TRUE

\* Whether the certificate found supplies the config's TLS material, network.js:143.
Applies(certificate) == ~certificate.disabled

SelectTls(certificates, url) ==
    LET i == FindCertificate(certificates, url.hostname, url.port)
    IN  IF i # 0 /\ Applies(certificates[i]) THEN TlsOf(certificates[i]) ELSE NoTls

\* The value of the slot before any transport call: null, network.js:17.
NoFunction == [send |-> "", attempt |-> 0, requestStartTime |-> 0, originalUrl |-> NoUrl]

\* swapHost (network.js:168): the host replaced by a literal address, of the
\* family the resolver prefers unless IPv4 is forced.
AddressFamilies == {"ipv6", "ipv4"}
SwapHost(url, force, family) ==
    [url EXCEPT !.hostname = IF force THEN "ipv4" ELSE family]

\* What the transport passes to its callback on success: the status and the
\* values of the Set-Cookie headers. "bad" is a value setCookieSync rejects.
SetCookieLists == {<<>>, <<"bad">>, <<"a=1", "b=2">>, <<"bad", "b=2">>}
NetworkResponse(setCookie, elapsed) ==
    [statusCode |-> 200, statusMessage |-> "OK", setCookie |-> setCookie,
     elapsedTime |-> elapsed]
NoResponse == [statusCode |-> 0, statusMessage |-> "", setCookie |-> <<>>, elapsedTime |-> 0]

(***************************************************************************)
(* The two requests.  req_1 has a file body, which _buildRequestConfig     *)
(* reads and may fail to read, and is sent to a server that may answer     *)
(* with any of the errors and Set-Cookie lists.  req_2 has a text body and *)
(* a server that refuses the connection or answers without cookies.        *)
(***************************************************************************)
HasFileBody(s) == s = "req_1"
Readable(s) == IF HasFileBody(s) THEN BOOLEAN ELSE {TRUE}
ErrorsOf(s) ==
    IF s = "req_1" THEN TransportErrors
    ELSE {err \in TransportErrors : err.code = "ECONNREFUSED"}
SetCookieListsOf(s) == IF s = "req_1" THEN SetCookieLists ELSE {<<>>}
\* a.com has addresses of both families, b.com an IPv4 address only.
FamiliesOf(s) == IF s = "req_1" THEN AddressFamilies ELSE {"ipv4"}

NoFrame == [originalUrl |-> NoUrl, url |-> NoUrl, headers |-> <<>>, tls |-> NoTls,
            requestStartTime |-> 0, cookies |-> {}, jar |-> {},
            networkResponse |-> NoResponse]

\* renderedRequest.url
RenderedUrl(s) == request[s].url

\* The rendered request: the url and the headers of the stored one.
RenderedRequest(s) == [url |-> request[s].url, headers |-> request[s].headers]

(***************************************************************************)
(* Promises.  promise[s][0] is the promise of send(s); promise[s][a] is    *)
(* the promise of the a-th _actuallySend.  Each settles once.  The a-th    *)
(* promise is forwarded to the one before it: by .then(resolve, reject) at *)
(* network.js:185, and by `return await` at network.js:289.                *)
(***************************************************************************)
RECURSIVE Settle(_, _, _, _)
Settle(p, s, a, v) ==
    IF p[s][a].state # "pending" THEN p
    ELSE LET q == [p EXCEPT ![s][a] = v]
         IN  IF a = 0 THEN q ELSE Settle(q, s, a - 1, v)

(***************************************************************************)
(* The patches handed to models.response.create.                          *)
(***************************************************************************)
RenderFailedPatch(s) ==
    [parentId |-> s, statusCode |-> STATUS_CODE_RENDER_FAILED, error |-> RenderError]

ConfigErrorPatch(s, message) ==
    [url |-> RenderedUrl(s), parentId |-> s, elapsedTime |-> 0,
     statusMessage |-> "Error", error |-> message]

\* network.js:189-193
ErrorMessage(err) ==
    IF err.text = "Error: Parse Error"
    THEN "Error parsing response after N bytes. Code: " \o err.code
    ELSE err.text

TransportErrorPatch(s, originalUrl, err) ==
    [url |-> originalUrl, parentId |-> s, statusMessage |-> "Error",
     error |-> ErrorMessage(err)]

SuccessPatch(s, originalUrl, networkResponse) ==
    [parentId |-> s, statusCode |-> networkResponse.statusCode,
     statusMessage |-> networkResponse.statusMessage, url |-> originalUrl,
     elapsedTime |-> networkResponse.elapsedTime, encoding |-> "base64",
     headers |-> networkResponse.setCookie]

CancelledPatch(s, originalUrl, elapsed) ==
    [url |-> originalUrl, parentId |-> s, elapsedTime |-> elapsed,
     statusMessage |-> "Cancelled", error |-> "The request was cancelled"]

\* A call of models.response.create and what runs when it completes.
Create(s, a, patch, kind, err) ==
    [send |-> s, attempt |-> a, patch |-> patch, then |-> kind, err |-> err]

(***************************************************************************)
(* Initial state.                                                          *)
(***************************************************************************)
InitPipeline ==
    /\ newRequest = [s \in Sends |-> NotUpdated]
    /\ pc = [s \in Sends |-> "idle"]
    /\ attempts = [s \in Sends |-> 0]
    /\ forceIPv4 = [s \in Sends |-> FALSE]
    /\ promise = [s \in Sends |-> [a \in 0..MaxAttempts |-> Pending]]
    /\ req = [s \in Sends |-> [a \in 1..MaxAttempts |-> "none"]]
    /\ frame = [s \in Sends |-> NoFrame]
    /\ cancelRequestFunction = NoFunction
    /\ dbQueue = <<>>
    /\ responses = [s \in Sends |-> <<>>]
    /\ dispatchLog = <<>>
    /\ jarUpdates = [s \in Sends |-> 0]
    /\ now = 0
    /\ cancels = 0

\* req_1 is sent to a.com with a cookie header of its own, req_2 to
\* b.com:8443 without headers; the workspace has a certificate for each of
\* a.com and b.com, and the jar a cookie for each.
Request(url, headers) == [url |-> url, headers |-> headers]
Request2 == Request(Url("https:", "b.com", "8443"), <<>>)

Init ==
    /\ request = [s \in Sends |->
                    IF s = "req_1"
                    THEN Request(Url("", "a.com", ""), <<Header("cookie", "x=0")>>)
                    ELSE Request2]
    /\ workspace = <<Certificate("b.com", "", FALSE), Certificate("a.com", "443", FALSE)>>
    /\ cookieJarDoc = {Cookie("s=0", Url("", "a.com", "")), Cookie("t=0", Url("", "b.com", ""))}
    /\ InitPipeline

(***************************************************************************)
(* send(), network.js:264-290.                                             *)
(***************************************************************************)
\* The settle delay and the loads of the request and the settings.
Send(s) ==
    /\ pc[s] = "idle"
    /\ pc' = [pc EXCEPT ![s] = "render"]
    /\ UNCHANGED docs
    /\ UNCHANGED <<attempts, forceIPv4, promise, req, frame, cancelRequestFunction,
                   dbQueue, responses, dispatchLog, cookieJarDoc, jarUpdates, now, cancels>>

\* getRenderedRequest throws: the Response of network.js:277-281 is created.
RenderFails(s) ==
    /\ pc[s] = "render"
    /\ pc' = [pc EXCEPT ![s] = "create"]
    /\ dbQueue' = Append(dbQueue, Create(s, 0, RenderFailedPatch(s), "renderFailed", NoError))
    /\ UNCHANGED docs
    /\ UNCHANGED <<attempts, forceIPv4, promise, req, frame, cancelRequestFunction,
                   responses, dispatchLog, cookieJarDoc, jarUpdates, now, cancels>>

\* getRenderedRequest returns; the rendered request carries the cookie jar
\* document as it is now.  db.withAncestors is awaited next.
RenderSucceeds(s) ==
    /\ pc[s] = "render"
    /\ pc' = [pc EXCEPT ![s] = "ancestors"]
    /\ frame' = [frame EXCEPT ![s].cookies = cookieJarDoc]
    /\ UNCHANGED docs
    /\ UNCHANGED <<attempts, forceIPv4, promise, req, cancelRequestFunction, dbQueue,
                   responses, dispatchLog, cookieJarDoc, jarUpdates, now, cancels>>

(***************************************************************************)
(* _actuallySend up to its first await, network.js:99-155: the config is   *)
(* built; when that throws the Response of network.js:119-125 is created,  *)
(* otherwise cookieHeaderValueForUri is awaited.                           *)
(***************************************************************************)
ActuallySendStart(s, force, readable) ==
    LET a == attempts[s] + 1 IN
    /\ attempts' = [attempts EXCEPT ![s] = a]
    /\ forceIPv4' = [forceIPv4 EXCEPT ![s] = force]
    /\ IF readable
       THEN /\ pc' = [pc EXCEPT ![s] = "cookie"]
            /\ frame' = [frame EXCEPT ![s] =
                   [@ EXCEPT !.originalUrl = NoUrl,
                             !.url = BuildRequestConfig(RenderedRequest(s)).url,
                             !.headers = ConfigOf(frame[s].headers,
                                             BuildRequestConfig(RenderedRequest(s)).headers),
                             !.tls = SelectTls(workspace,
                                         BuildRequestConfig(RenderedRequest(s)).url),
                             !.requestStartTime = 0, !.jar = frame[s].cookies,
                             !.networkResponse = NoResponse]]
            /\ dbQueue' = dbQueue
       ELSE /\ pc' = [pc EXCEPT ![s] = "create"]
            /\ frame' = [frame EXCEPT ![s] = NoFrame]
            /\ dbQueue' = Append(dbQueue,
                   Create(s, a, ConfigErrorPatch(s, FileError), "configError", NoError))

\* send() calls _actuallySend(renderedRequest, workspace, settings), network.js:289.
ActuallySend(s) ==
    /\ pc[s] = "ancestors"
    /\ \E readable \in Readable(s) : ActuallySendStart(s, FALSE, readable)
    /\ UNCHANGED docs
    /\ UNCHANGED <<promise, req, cancelRequestFunction, responses, dispatchLog,
                   cookieJarDoc, jarUpdates, now, cancels>>

\* cookieHeaderValueForUri returns; the Cookie header is set and swapHost is
\* awaited, network.js:155-168.
CookieHeaderDone(s) ==
    /\ pc[s] = "cookie"
    /\ pc' = [pc EXCEPT ![s] = "dns"]
    /\ frame' = [frame EXCEPT
           ![s].headers = AddCookieHeader(frame[s].headers,
                              CookieHeaderValueForUri(frame[s].jar, frame[s].url)),
           ![s].originalUrl = frame[s].url]
    /\ UNCHANGED docs
    /\ UNCHANGED <<attempts, forceIPv4, promise, req, cancelRequestFunction, dbQueue,
                   responses, dispatchLog, cookieJarDoc, jarUpdates, now, cancels>>
\* Arm, were a handle already in the slot kept.
ArmIfEmpty(slot, handle) == IF slot = NoFunction THEN handle ELSE slot

\* cancelRequestFunction = async () => {...}, network.js:248: the slot holds
\* the new handle, whatever it held.
Arm(slot, handle) == handle

\* DispatchUrl, were the address swapHost returns not put in the config.
DispatchUrlUnswapped(originalUrl, swapped) == originalUrl

\* config.url = await swapHost(config.url, forceIPv4), network.js:168: the url
\* networkRequest is called with.
DispatchUrl(originalUrl, swapped) == swapped

\* swapHost returns: the transport is called with the substituted url and the
\* cancellation slot is overwritten with this call's handle,
\* network.js:167-172 and 247-260.
Dispatch(s) ==
    /\ pc[s] = "dns"
    /\ \E family \in FamiliesOf(s) :
         LET a == attempts[s]
             url == DispatchUrl(frame[s].originalUrl,
                                SwapHost(frame[s].url, forceIPv4[s], family))
         IN  /\ frame' = [frame EXCEPT ![s].url = url, ![s].requestStartTime = now]
             /\ req' = [req EXCEPT ![s][a] = "inflight"]
             /\ dispatchLog' = Append(dispatchLog,
                    [send |-> s, attempt |-> a, forceIPv4 |-> forceIPv4[s], url |-> url,
                     headers |-> frame[s].headers])
             /\ cancelRequestFunction' = Arm(cancelRequestFunction,
                    [send |-> s, attempt |-> a, requestStartTime |-> now,
                     originalUrl |-> frame[s].originalUrl])
    /\ pc' = [pc EXCEPT ![s] = "inflight"]
    /\ UNCHANGED docs
    /\ UNCHANGED <<attempts, forceIPv4, promise, dbQueue, responses, cookieJarDoc,
                   jarUpdates, now, cancels>>

\* IsNetworkRelatedError, were every error taken for a failure to connect.
IsAnyError(err) == TRUE

\* network.js:177-181
IsNetworkRelatedError(err) ==
    \/ err.code = "ECONNREFUSED"
    \/ err.code = "EHOSTUNREACH"
    \/ err.code = "ENETUNREACH"

\* ShouldFallBack, were forceIPv4 not looked at.
ShouldFallBackAlways(force, err) == IsNetworkRelatedError(err)

\* network.js:183
ShouldFallBack(force, err) == ~force /\ IsNetworkRelatedError(err)

\* The transport calls back with an error, network.js:173-203: either
\* _actuallySend is called again with forceIPv4 = true, or the Error Response
\* is created.  An aborted call never calls back.
TransportFails(s, err) ==
    LET a == attempts[s] IN
    /\ pc[s] = "inflight"
    /\ req[s][a] = "inflight"
    /\ req' = [req EXCEPT ![s][a] = err.code]
    /\ IF ShouldFallBack(forceIPv4[s], err)
       THEN /\ a < MaxAttempts
            /\ \E readable \in Readable(s) : ActuallySendStart(s, TRUE, readable)
       ELSE /\ pc' = [pc EXCEPT ![s] = "create"]
            /\ dbQueue' = Append(dbQueue,
                   Create(s, a, TransportErrorPatch(s, frame[s].originalUrl, err),
                          "transportError", err))
            /\ UNCHANGED <<attempts, forceIPv4, frame>>
    /\ UNCHANGED docs
    /\ UNCHANGED <<promise, cancelRequestFunction, responses, dispatchLog,
                   cookieJarDoc, jarUpdates, now, cancels>>

\* SetCookies, were the try around the loop: the first value that does not
\* parse ends it.
RECURSIVE SetCookiesUntilFailure(_, _, _)
SetCookiesUntilFailure(jar, values, url) ==
    IF values = <<>> \/ Head(values) = "bad" THEN jar
    ELSE SetCookiesUntilFailure(jar \cup {Cookie(Head(values), url)}, Tail(values), url)

\* jar.setCookieSync(h.value, originalUrl) in its try/catch, network.js:220-226,
\* over the headers in order.
RECURSIVE SetCookies(_, _, _)
SetCookies(jar, values, url) ==
    IF values = <<>> THEN jar
    ELSE SetCookies(IF Head(values) = "bad" THEN jar
                    ELSE jar \cup {Cookie(Head(values), url)},
                    Tail(values), url)

\* HasSetCookieHeaders, were the length of the list not looked at.
HasSetCookieHeadersNever(setCookie) == FALSE

\* if (setCookieHeaders.length), network.js:219
HasSetCookieHeaders(setCookie) == Len(setCookie) > 0

\* The transport calls back with a response, network.js:205-244.  With
\* Set-Cookie headers the jar is updated and cookiesFromJar is awaited;
\* without, the Response is created at once.
TransportSucceeds(s, setCookie) ==
    LET a == attempts[s]
        networkResponse == NetworkResponse(setCookie, now - frame[s].requestStartTime)
    IN
    /\ pc[s] = "inflight"
    /\ req[s][a] = "inflight"
    /\ req' = [req EXCEPT ![s][a] = "ok"]
    /\ IF HasSetCookieHeaders(setCookie)
       THEN /\ pc' = [pc EXCEPT ![s] = "cookiesFromJar"]
            /\ frame' = [frame EXCEPT
                   ![s].jar = SetCookies(frame[s].jar, setCookie, frame[s].originalUrl),
                   ![s].networkResponse = networkResponse]
            /\ dbQueue' = dbQueue
       ELSE /\ pc' = [pc EXCEPT ![s] = "create"]
            /\ frame' = frame
            /\ dbQueue' = Append(dbQueue,
                   Create(s, a, SuccessPatch(s, frame[s].originalUrl, networkResponse),
                          "success", NoError))
    /\ UNCHANGED docs
    /\ UNCHANGED <<attempts, forceIPv4, promise, cancelRequestFunction, responses,
                   dispatchLog, cookieJarDoc, jarUpdates, now, cancels>>

\* cookiesFromJar returns and models.cookieJar.update is awaited, network.js:227-228.
CookiesFromJarDone(s) ==
    /\ pc[s] = "cookiesFromJar"
    /\ pc' = [pc EXCEPT ![s] = "jarUpdate"]
    /\ UNCHANGED docs
    /\ UNCHANGED <<attempts, forceIPv4, promise, req, frame, cancelRequestFunction,
                   dbQueue, responses, dispatchLog, cookieJarDoc, jarUpdates, now, cancels>>

\* models.cookieJar.update returns: the document holds the jar's cookies, and
\* the Response is created, network.js:228-244.
JarUpdateDone(s) ==
    /\ pc[s] = "jarUpdate"
    /\ cookieJarDoc' = frame[s].jar
    /\ jarUpdates' = [jarUpdates EXCEPT ![s] = @ + 1]
    /\ pc' = [pc EXCEPT ![s] = "create"]
    /\ dbQueue' = Append(dbQueue,
           Create(s, attempts[s],
                  SuccessPatch(s, frame[s].originalUrl, frame[s].networkResponse),
                  "success", NoError))
    /\ UNCHANGED docs
    /\ UNCHANGED <<attempts, forceIPv4, promise, req, frame, cancelRequestFunction,
                   responses, dispatchLog, now, cancels>>

(***************************************************************************)
(* models.response.create completes, oldest call first: the Response is    *)
(* stored and the code after the call runs.                                *)
(***************************************************************************)
Stored(call) == [responses EXCEPT ![call.send] = Append(@, call.patch)]

\* RenderFailedCreated, were the render error thrown on after the create.
RenderFailedRethrown ==
    /\ dbQueue # <<>>
    /\ LET call == Head(dbQueue) IN
       /\ call.then = "renderFailed"
       /\ responses' = Stored(call)
       /\ promise' = Settle(promise, call.send, 0, Rejected(NoError))
       /\ pc' = [pc EXCEPT ![call.send] = "done"]
    /\ dbQueue' = Tail(dbQueue)
    /\ UNCHANGED docs
    /\ UNCHANGED <<attempts, forceIPv4, req, frame, cancelRequestFunction, dispatchLog,
                   cookieJarDoc, jarUpdates, now, cancels>>

\* send() returns the render-failed Response, network.js:277-281.
RenderFailedCreated ==
    /\ dbQueue # <<>>
    /\ LET call == Head(dbQueue) IN
       /\ call.then = "renderFailed"
       /\ responses' = Stored(call)
       /\ promise' = Settle(promise, call.send, 0, Resolved(call.patch))
       /\ pc' = [pc EXCEPT ![call.send] = "done"]
    /\ dbQueue' = Tail(dbQueue)
    /\ UNCHANGED docs
    /\ UNCHANGED <<attempts, forceIPv4, req, frame, cancelRequestFunction, dispatchLog,
                   cookieJarDoc, jarUpdates, now, cancels>>

\* ConfigErrorCreated, were the promise rejected as after a transport error.
ConfigErrorRejected ==
    /\ dbQueue # <<>>
    /\ LET call == Head(dbQueue) IN
       /\ call.then = "configError"
       /\ responses' = Stored(call)
       /\ promise' = Settle(promise, call.send, call.attempt, Rejected(NoError))
       /\ pc' = [pc EXCEPT ![call.send] = "done"]
       /\ frame' = [frame EXCEPT ![call.send] = NoFrame]
    /\ dbQueue' = Tail(dbQueue)
    /\ UNCHANGED docs
    /\ UNCHANGED <<attempts, forceIPv4, req, cancelRequestFunction, dispatchLog,
                   cookieJarDoc, jarUpdates, now, cancels>>

\* resolve(response) after a config-build failure, network.js:126.
ConfigErrorCreated ==
    /\ dbQueue # <<>>
    /\ LET call == Head(dbQueue) IN
       /\ call.then = "configError"
       /\ responses' = Stored(call)
       /\ promise' = Settle(promise, call.send, call.attempt, Resolved(call.patch))
       /\ pc' = [pc EXCEPT ![call.send] = "done"]
       /\ frame' = [frame EXCEPT ![call.send] = NoFrame]
    /\ dbQueue' = Tail(dbQueue)
    /\ UNCHANGED docs
    /\ UNCHANGED <<attempts, forceIPv4, req, cancelRequestFunction, dispatchLog,
                   cookieJarDoc, jarUpdates, now, cancels>>

\* reject(err) after a terminal transport error, network.js:202.
TransportErrorCreated ==
    /\ dbQueue # <<>>
    /\ LET call == Head(dbQueue) IN
       /\ call.then = "transportError"
       /\ responses' = Stored(call)
       /\ promise' = Settle(promise, call.send, call.attempt, Rejected(call.err))
       /\ pc' = [pc EXCEPT ![call.send] = "done"]
       /\ frame' = [frame EXCEPT ![call.send] = NoFrame]
    /\ dbQueue' = Tail(dbQueue)
    /\ UNCHANGED docs
    /\ UNCHANGED <<attempts, forceIPv4, req, cancelRequestFunction, dispatchLog,
                   cookieJarDoc, jarUpdates, now, cancels>>

\* SuccessCreated, were the promise resolved with the patch and the create
\* not waited for.
SuccessResolvedUnstored ==
    /\ dbQueue # <<>>
    /\ LET call == Head(dbQueue) IN
       /\ call.then = "success"
       /\ responses' = responses
       /\ promise' = Settle(promise, call.send, call.attempt, Resolved(call.patch))
       /\ pc' = [pc EXCEPT ![call.send] = "done"]
       /\ frame' = [frame EXCEPT ![call.send] = NoFrame]
    /\ dbQueue' = Tail(dbQueue)
    /\ UNCHANGED docs
    /\ UNCHANGED <<attempts, forceIPv4, req, cancelRequestFunction, dispatchLog,
                   cookieJarDoc, jarUpdates, now, cancels>>

\* .then(resolve, reject) on the created Response, network.js:244.
SuccessCreated ==
    /\ dbQueue # <<>>
    /\ LET call == Head(dbQueue) IN
       /\ call.then = "success"
       /\ responses' = Stored(call)
       /\ promise' = Settle(promise, call.send, call.attempt, Resolved(call.patch))
       /\ pc' = [pc EXCEPT ![call.send] = "done"]
       /\ frame' = [frame EXCEPT ![call.send] = NoFrame]
    /\ dbQueue' = Tail(dbQueue)
    /\ UNCHANGED docs
    /\ UNCHANGED <<attempts, forceIPv4, req, cancelRequestFunction, dispatchLog,
                   cookieJarDoc, jarUpdates, now, cancels>>

\* CancelledCreated, were the promise not rejected after the create.
CancelledCreatedOnly ==
    /\ dbQueue # <<>>
    /\ LET call == Head(dbQueue) IN
       /\ call.then = "cancelled"
       /\ responses' = Stored(call)
       /\ promise' = promise
    /\ dbQueue' = Tail(dbQueue)
    /\ UNCHANGED docs
    /\ UNCHANGED <<pc, attempts, forceIPv4, req, frame, cancelRequestFunction,
                   dispatchLog, cookieJarDoc, jarUpdates, now, cancels>>

\* reject(new Error('Cancelled')) in the cancel handle, network.js:259.
CancelledCreated ==
    /\ dbQueue # <<>>
    /\ LET call == Head(dbQueue) IN
       /\ call.then = "cancelled"
       /\ responses' = Stored(call)
       /\ promise' = Settle(promise, call.send, call.attempt, Rejected(call.err))
    /\ dbQueue' = Tail(dbQueue)
    /\ UNCHANGED docs
    /\ UNCHANGED <<pc, attempts, forceIPv4, req, frame, cancelRequestFunction,
                   dispatchLog, cookieJarDoc, jarUpdates, now, cancels>>

(***************************************************************************)
(* Cancellation, network.js:17-23 and 247-260.                             *)
(***************************************************************************)
\* Abort, were req.abort() not called.
AbortNothing(r, fn) == r

\* req.abort(): a call in flight is aborted, a completed one is left as it is.
Abort(r, fn) ==
    IF r[fn.send][fn.attempt] = "inflight"
    THEN [r EXCEPT ![fn.send][fn.attempt] = "aborted"]
    ELSE r

\* typeof cancelRequestFunction === 'function', network.js:20
IsFunction(fn) == fn # NoFunction

\* cancelCurrentRequest(): the handle in the slot, if there is one, aborts its
\* transport call and creates the Cancelled Response.
CancelCurrentRequest ==
    /\ cancels < MaxCancels
    /\ cancels' = cancels + 1
    /\ LET fn == cancelRequestFunction IN
       IF IsFunction(fn)
       THEN /\ req' = Abort(req, fn)
            /\ dbQueue' = Append(dbQueue,
                   Create(fn.send, fn.attempt,
                          CancelledPatch(fn.send, fn.originalUrl, now - fn.requestStartTime),
                          "cancelled", CancelledError))
       ELSE UNCHANGED <<req, dbQueue>>
    /\ UNCHANGED docs
    /\ UNCHANGED <<pc, attempts, forceIPv4, promise, frame, cancelRequestFunction,
                   responses, dispatchLog, cookieJarDoc, jarUpdates, now>>

\* Time passes.
Tick ==
    /\ now < MaxTime
    /\ now' = now + 1
    /\ UNCHANGED docs
    /\ UNCHANGED <<pc, attempts, forceIPv4, promise, req, frame, cancelRequestFunction,
                   dbQueue, responses, dispatchLog, cookieJarDoc, jarUpdates, cancels>>

Next ==
    \/ \E s \in Sends : Send(s)
    \/ \E s \in Sends : RenderFails(s)
    \/ \E s \in Sends : RenderSucceeds(s)
    \/ \E s \in Sends : ActuallySend(s)
    \/ \E s \in Sends : CookieHeaderDone(s)
    \/ \E s \in Sends : Dispatch(s)
    \/ \E s \in Sends : \E err \in ErrorsOf(s) : TransportFails(s, err)
    \/ \E s \in Sends : \E setCookie \in SetCookieListsOf(s) : TransportSucceeds(s, setCookie)
    \/ \E s \in Sends : CookiesFromJarDone(s)
    \/ \E s \in Sends : JarUpdateDone(s)
    \/ RenderFailedCreated
    \/ ConfigErrorCreated
    \/ TransportErrorCreated
    \/ SuccessCreated
    \/ CancelledCreated
    \/ CancelCurrentRequest
    \/ Tick

Spec == Init /\ [][Next]_vars

(***************************************************************************)
(* The same with what the event loop and the collaborators guarantee: a    *)
(* create that was called completes, the cookie string, the address lookup *)
(* and the jar update return, and a transport call that is not aborted     *)
(* calls back.  Nothing is assumed of send() being called, of rendering or  *)
(* of cancelCurrentRequest.  The clock stands still, and the server of     *)
(* req_1 answers with one error of each class or with or without cookies.  *)
(***************************************************************************)
LiveErrorsOf(s) ==
    {err \in ErrorsOf(s) : err.code \in {"ECONNREFUSED", "ETIMEDOUT"}}
LiveSetCookieListsOf(s) == SetCookieListsOf(s) \cap {<<>>, <<"a=1", "b=2">>}

StorageCompletes ==
    \/ RenderFailedCreated
    \/ ConfigErrorCreated
    \/ TransportErrorCreated
    \/ SuccessCreated
    \/ CancelledCreated

TransportCallsBack(s) ==
    \/ \E err \in LiveErrorsOf(s) : TransportFails(s, err)
    \/ \E setCookie \in LiveSetCookieListsOf(s) : TransportSucceeds(s, setCookie)

Fairness ==
    /\ WF_vars(StorageCompletes)
    /\ \A s \in Sends :
           /\ WF_vars(CookieHeaderDone(s))
           /\ WF_vars(Dispatch(s))
           /\ WF_vars(TransportCallsBack(s))
           /\ WF_vars(CookiesFromJarDone(s))
           /\ WF_vars(JarUpdateDone(s))

LiveNext ==
    \/ \E s \in Sends : Send(s)
    \/ \E s \in Sends : RenderFails(s)
    \/ \E s \in Sends : RenderSucceeds(s)
    \/ \E s \in Sends : ActuallySend(s)
    \/ \E s \in Sends : CookieHeaderDone(s)
    \/ \E s \in Sends : Dispatch(s)
    \/ \E s \in Sends : TransportCallsBack(s)
    \/ \E s \in Sends : CookiesFromJarDone(s)
    \/ \E s \in Sends : JarUpdateDone(s)
    \/ StorageCompletes
    \/ CancelCurrentRequest

LiveSpec == Init /\ [][LiveNext]_vars /\ Fairness

(***************************************************************************)
(* The config build alone, for every workspace of at most MaxCerts         *)
(* certificates and every port of req_1's url.                             *)
(***************************************************************************)
CertificateLists ==
    UNION { [1..n -> Certificates] : n \in 0..MaxCerts }

CertInit ==
    /\ \E port \in Ports :
         request = [s \in Sends |->
                      IF s = "req_1" THEN Request(Url("", "a.com", port), <<>>)
                      ELSE Request2]
    /\ workspace \in CertificateLists
    /\ cookieJarDoc = {}
    /\ InitPipeline

CertNext ==
    \/ \E s \in Sends : Send(s)
    \/ \E s \in Sends : RenderSucceeds(s)
    \/ \E s \in Sends : ActuallySend(s)

CertSpec == CertInit /\ [][CertNext]_vars

(***************************************************************************)
(* The config build and the cookie header alone, for req_1 with every list *)
(* of at most MaxHeaders headers, with and without a port in its url, and  *)
(* every jar of cookies for its host.                                      *)
(***************************************************************************)
HeaderEntries ==
    { Header("", "v1"), Header("X-A", "v1"),
      Header("Host", "v1"), Header("Host", "v2"), Header("host", "v1"),
      Header("Cookie", "v1"), Header("cookie", "v1"), Header("cookie", "v2") }

HeaderLists == UNION { [1..n -> HeaderEntries] : n \in 0..MaxHeaders }

HeaderInit ==
    /\ \E port \in {"", "8443"} : \E headers \in HeaderLists :
         request = [s \in Sends |->
                      IF s = "req_1" THEN Request(Url("", "a.com", port), headers)
                      ELSE Request2]
    /\ workspace = <<>>
    /\ cookieJarDoc \in SUBSET {Cookie("s=0", Url("", "a.com", "")),
                                Cookie("a=1", Url("", "a.com", ""))}
    /\ InitPipeline

HeaderNext ==
    \/ Send("req_1")
    \/ RenderSucceeds("req_1")
    \/ ActuallySend("req_1")
    \/ CookieHeaderDone("req_1")

HeaderSpec == HeaderInit /\ [][HeaderNext]_vars

(***************************************************************************)
(* updateMimeType alone, on a request with every list of at most           *)
(* MaxStoredHeaders entries.                                               *)
(***************************************************************************)
StoredEntries ==
    { Header("content-tYPE", "application/json"), Header("Content-Type", "text/html"),
      Header("foo", "bar"), NoName, NullEntry }

StoredLists == UNION { [1..n -> StoredEntries] : n \in 0..MaxStoredHeaders }

\* requestModel.updateMimeType(request, mimeType): the request is stored with
\* the new headers and returned.
UpdateMimeTypeOf(s, mimeType) ==
    LET headers == UpdateMimeType(request[s].headers, mimeType) IN
    /\ request' = [request EXCEPT ![s].headers = headers]
    /\ newRequest' = [newRequest EXCEPT ![s] =
            [mimeType |-> mimeType, headers |-> headers, updated |-> TRUE]]
    /\ UNCHANGED <<workspace, pc, attempts, forceIPv4, promise, req, frame,
                   cancelRequestFunction, dbQueue, responses, dispatchLog, cookieJarDoc,
                   jarUpdates, now, cancels>>

MimeInit ==
    /\ \E headers \in StoredLists :
         request = [s \in Sends |->
                      IF s = "req_1" THEN Request(Url("", "a.com", ""), headers)
                      ELSE Request2]
    /\ workspace = <<>>
    /\ cookieJarDoc = {}
    /\ InitPipeline

MimeNext == \E mimeType \in MimeTypes : UpdateMimeTypeOf("req_1", mimeType)

MimeSpec == MimeInit /\ [][MimeNext]_vars

(***************************************************************************)
(* What the properties below speak of.                                     *)
(***************************************************************************)
Attempts == 1..MaxAttempts
ReachabilityCodes == {"ECONNREFUSED", "EHOSTUNREACH", "ENETUNREACH"}
ErrorWithCode(code) == CHOOSE err \in TransportErrors : err.code = code

HasStatus(r, message) == "statusMessage" \in DOMAIN r /\ r.statusMessage = message
IsCancelled(r) == HasStatus(r, "Cancelled")
IsRenderFailed(r) == "statusCode" \in DOMAIN r /\ r.statusCode = STATUS_CODE_RENDER_FAILED
IsConfigError(r) ==
    /\ HasStatus(r, "Error")
    /\ "elapsedTime" \in DOMAIN r /\ r.elapsedTime = 0
    /\ r.error = FileError

\* The create calls of a kind still pending for a send, and the Responses of
\* a kind stored for it, by position.
Queued(s, kind) == {i \in DOMAIN dbQueue : dbQueue[i].send = s /\ dbQueue[i].then = kind}
StoredCancelled(s) == {i \in DOMAIN responses[s] : IsCancelled(responses[s][i])}
StoredConfigError(s) == {i \in DOMAIN responses[s] : IsConfigError(responses[s][i])}
StoredRenderFailed(s) == {i \in DOMAIN responses[s] : IsRenderFailed(responses[s][i])}
StoredError(s) == {i \in DOMAIN responses[s] : HasStatus(responses[s][i], "Error")}

\* The transport calls made for a send, by position in the log.
Dispatches(s) == {i \in DOMAIN dispatchLog : dispatchLog[i].send = s}
Dispatched(s, a) == \E i \in Dispatches(s) : dispatchLog[i].attempt = a
Forced(s, a) ==
    \E i \in Dispatches(s) : dispatchLog[i].attempt = a /\ dispatchLog[i].forceIPv4
LastDispatch == dispatchLog[Len(dispatchLog)]

\* cancelCurrentRequest is being invoked in this step.
CancelInvoked == cancels' = cancels + 1

(***************************************************************************)
(* C1.  Each logical send persists exactly one Response: never more than   *)
(* one Response exists for it, and once the promise of its first           *)
(* _actuallySend has settled exactly one does, whenever and however often  *)
(* cancelCurrentRequest is invoked.                                        *)
(***************************************************************************)
C1_ExactlyOneResponse ==
    \A s \in Sends :
        /\ Len(responses[s]) <= 1
        /\ promise[s][1].state # "pending" => Len(responses[s]) = 1

(***************************************************************************)
(* C2.  After a reachability-class failure of the attempt made with        *)
(* forceIPv4 = false the pipeline has been started exactly once more, with *)
(* forceIPv4 = true; nothing is persisted and the caller's promise is not  *)
(* settled before the second attempt has its result, and the caller's      *)
(* promise settles to the second attempt's result only.                    *)
(***************************************************************************)
C2_SettledBySecondAttemptOnly ==
    \A s \in Sends :
        req[s][1] \in ReachabilityCodes =>
            /\ attempts[s] = 2
            /\ forceIPv4[s]
            /\ promise[s][2].state = "pending" =>
                   responses[s] = <<>> /\ promise[s][1].state = "pending"
            /\ promise[s][1].state # "pending" => promise[s][1] = promise[s][2]

(***************************************************************************)
(* C3.  The fallback is bounded: a reachability-class failure of an        *)
(* attempt made with forceIPv4 = true starts no further attempt and ends   *)
(* in the Error Response, and no send makes more than two transport calls. *)
(***************************************************************************)
C3_FallbackBounded ==
    \A s \in Sends :
        /\ Cardinality(Dispatches(s)) <= 2
        /\ \A a \in Attempts :
               Forced(s, a) =>
                   /\ attempts[s] = a
                   /\ req[s][a] \in ReachabilityCodes =>
                          /\ pc[s] \in {"create", "done"}
                          /\ Queued(s, "transportError") # {} \/ StoredError(s) # {}

C3_Witness ==
    \E s \in Sends :
        /\ req[s][1] \in ReachabilityCodes
        /\ req[s][2] \in ReachabilityCodes
        /\ Cardinality(Dispatches(s)) = 2
        /\ pc[s] = "done"
        /\ promise[s][0] = Rejected(ErrorWithCode(req[s][2]))

(***************************************************************************)
(* C4.  cancelCurrentRequest invoked while the call of the handle in the   *)
(* slot is in flight aborts that call and creates a Response with          *)
(* statusMessage "Cancelled" and elapsedTime = now - dispatch start >= 0;  *)
(* an aborted call never calls back, and once the Response is stored the   *)
(* send is rejected with the Cancelled error, which no transport error     *)
(* equals.                                                                 *)
(***************************************************************************)
C4_CancelStep ==
    LET fn == cancelRequestFunction
        s == fn.send
        call == dbQueue'[Len(dbQueue')]
    IN  (CancelInvoked /\ IsFunction(fn) /\ req[s][fn.attempt] = "inflight") =>
            /\ req'[s][fn.attempt] = "aborted"
            /\ Len(dbQueue') = Len(dbQueue) + 1
            /\ call.send = s /\ call.attempt = fn.attempt /\ call.then = "cancelled"
            /\ call.patch.statusMessage = "Cancelled"
            /\ call.patch.parentId = s
            /\ call.patch.elapsedTime = now - frame[s].requestStartTime
            /\ call.patch.elapsedTime >= 0

C4_Aborted ==
    \A s \in Sends : \A a \in Attempts :
        req[s][a] = "aborted" =>
            /\ pc[s] = "inflight" /\ attempts[s] = a
            /\ \/ /\ promise[s][a].state = "pending"
                  /\ \E i \in Queued(s, "cancelled") : dbQueue[i].attempt = a
               \/ /\ promise[s][a] = Rejected(CancelledError)
                  /\ promise[s][0] = Rejected(CancelledError)
                  /\ \E i \in StoredCancelled(s) :
                         /\ responses[s][i].elapsedTime >= 0
                         /\ responses[s][i].elapsedTime <= now - frame[s].requestStartTime
            /\ CancelledError \notin TransportErrors

C4_CancelInFlight == []C4_Aborted /\ [][C4_CancelStep]_vars

C4_Witness ==
    \E s \in Sends :
        /\ req[s][1] = "aborted"
        /\ promise[s][0] = Rejected(CancelledError)
        /\ \E i \in StoredCancelled(s) : responses[s][i].elapsedTime = 1

(***************************************************************************)
(* C5.  The slot holds one handle, that of the transport call made last.   *)
(* cancelCurrentRequest acts on that call's send only: every other call    *)
(* and send is left as it is, and a send for which no Cancelled Response   *)
(* was ever created has no aborted call, is not rejected as Cancelled and, *)
(* when it is done, has exactly one Response, the one it settled with.     *)
(***************************************************************************)
Targeted(s) == Queued(s, "cancelled") # {} \/ StoredCancelled(s) # {}

C5_SlotIsLastDispatch ==
    IF dispatchLog = <<>> THEN cancelRequestFunction = NoFunction
    ELSE /\ cancelRequestFunction.send = LastDispatch.send
         /\ cancelRequestFunction.attempt = LastDispatch.attempt

C5_OthersUntouched ==
    \A t \in Sends :
        ~Targeted(t) =>
            /\ \A a \in Attempts : req[t][a] # "aborted"
            /\ promise[t][0] # Rejected(CancelledError)
            /\ pc[t] = "done" =>
                   /\ Len(responses[t]) = 1
                   /\ promise[t][0].state # "pending"
                   /\ promise[t][0].state = "resolved" =>
                          promise[t][0].value = responses[t][1]

C5_CancelStep ==
    (CancelInvoked /\ dispatchLog # <<>>) =>
        LET last == LastDispatch
            call == dbQueue'[Len(dbQueue')]
        IN  /\ \A t \in Sends : \A a \in Attempts :
                   <<t, a>> # <<last.send, last.attempt>> => req'[t][a] = req[t][a]
            /\ \A t \in Sends : promise'[t] = promise[t] /\ responses'[t] = responses[t]
            /\ Len(dbQueue') = Len(dbQueue) + 1
            /\ call.send = last.send /\ call.attempt = last.attempt

C5_SingleSlot ==
    /\ [](C5_SlotIsLastDispatch /\ C5_OthersUntouched)
    /\ [][C5_CancelStep]_vars

\* Both sends in flight, req_1 dispatched last; the cancel has aborted req_1 only.
C5_Witness ==
    /\ Len(dispatchLog) = 2
    /\ dispatchLog[1].send = "req_2" /\ dispatchLog[2].send = "req_1"
    /\ req["req_1"][1] = "aborted"
    /\ req["req_2"][1] = "inflight"
    /\ Targeted("req_1") /\ ~Targeted("req_2")

(***************************************************************************)
(* C6.  When building the config throws, that _actuallySend creates one    *)
(* Response with statusMessage "Error", elapsedTime 0 and the exception's  *)
(* message, and resolves its promise with it; it goes on to no DNS lookup  *)
(* and no transport call, no further attempt is started, and the slot is   *)
(* left as it was.  When it is the send's first attempt, this Response is  *)
(* the send's only one and send() resolves with it.                        *)
(***************************************************************************)
ConfigFailed(s) == Queued(s, "configError") # {} \/ StoredConfigError(s) # {}

C6_ConfigError ==
    \A s \in Sends :
        ConfigFailed(s) =>
            LET a == attempts[s] IN
            /\ Cardinality(Queued(s, "configError")) + Cardinality(StoredConfigError(s)) = 1
            /\ req[s][a] = "none" /\ ~Dispatched(s, a)
            /\ frame[s].url.hostname \notin AddressFamilies
            /\ \A i \in Queued(s, "configError") :
                   /\ pc[s] = "create" /\ promise[s][a].state = "pending"
                   /\ dbQueue[i].attempt = a
                   /\ IsConfigError(dbQueue[i].patch)
            /\ \A i \in StoredConfigError(s) :
                   /\ pc[s] = "done"
                   /\ promise[s][a] = Resolved(responses[s][i])
                   /\ a = 1 => /\ responses[s] = <<responses[s][i]>>
                               /\ promise[s][0] = Resolved(responses[s][i])
            /\ a = 1 => cancelRequestFunction.send # s

C6_SlotStep ==
    \A s \in Sends :
        (\/ ~ConfigFailed(s) /\ ConfigFailed(s)'
         \/ Queued(s, "configError") # {} /\ Queued(s, "configError")' = {})
            => cancelRequestFunction' = cancelRequestFunction

C6_ConfigBuildFailure == []C6_ConfigError /\ [][C6_SlotStep]_vars

C6_Witness ==
    /\ attempts["req_1"] = 1
    /\ pc["req_1"] = "done"
    /\ StoredConfigError("req_1") = {1}
    /\ promise["req_1"][0].state = "resolved"
    /\ IsFunction(cancelRequestFunction)

(***************************************************************************)
(* C7.  A transport error that is not reachability-class is terminal       *)
(* whatever forceIPv4 is: no further attempt is started, the Error         *)
(* Response is created, and once it is stored the promise of that          *)
(* _actuallySend is rejected with the error; on the first attempt that is  *)
(* what send() is rejected with.                                           *)
(***************************************************************************)
OtherCodes == {err.code : err \in OtherErrors}

C7_OtherErrorsTerminal ==
    \A s \in Sends : \A a \in Attempts :
        req[s][a] \in OtherCodes =>
            LET err == ErrorWithCode(req[s][a])
                patch == TransportErrorPatch(s, PrepareUrl(RenderedUrl(s)), err)
            IN  /\ attempts[s] = a
                /\ patch.statusMessage = "Error"
                /\ \/ /\ pc[s] = "create"
                      /\ promise[s][a].state = "pending"
                      /\ \E i \in Queued(s, "transportError") :
                             dbQueue[i].attempt = a /\ dbQueue[i].patch = patch
                   \/ /\ pc[s] = "done"
                      /\ \E i \in StoredError(s) : responses[s][i] = patch
                      /\ promise[s][a] = Rejected(err)
                      /\ a = 1 => promise[s][0] = Rejected(err)

C7_Witness ==
    /\ req["req_1"][1] = "HPE_INVALID_CONSTANT"
    /\ ~forceIPv4["req_1"]
    /\ pc["req_1"] = "done"
    /\ promise["req_1"][0] = Rejected(ErrorWithCode("HPE_INVALID_CONSTANT"))
    /\ Len(responses["req_1"]) = 1

(***************************************************************************)
(* C8.  When rendering fails, send() creates one Response with the         *)
(* render-failed status code and the render error's message and resolves   *)
(* with it; it is never rejected, _actuallySend is never called, no        *)
(* transport call is made and the slot never holds a handle of this send.  *)
(***************************************************************************)
RenderFailed(s) == Queued(s, "renderFailed") # {} \/ StoredRenderFailed(s) # {}

C8_RenderFailure ==
    \A s \in Sends :
        RenderFailed(s) =>
            /\ attempts[s] = 0
            /\ Dispatches(s) = {}
            /\ \A a \in Attempts : req[s][a] = "none"
            /\ cancelRequestFunction.send # s
            /\ promise[s][0].state # "rejected"
            /\ \/ /\ pc[s] = "create"
                  /\ promise[s][0].state = "pending"
                  /\ responses[s] = <<>>
                  /\ Cardinality(Queued(s, "renderFailed")) = 1
               \/ /\ pc[s] = "done"
                  /\ Queued(s, "renderFailed") = {}
                  /\ responses[s] = <<RenderFailedPatch(s)>>
                  /\ responses[s][1].statusCode = STATUS_CODE_RENDER_FAILED
                  /\ responses[s][1].error = RenderError
                  /\ promise[s][0] = Resolved(responses[s][1])

C8_Witness ==
    /\ pc["req_1"] = "done"
    /\ StoredRenderFailed("req_1") = {1}
    /\ promise["req_1"][0].state = "resolved"
    /\ IsFunction(cancelRequestFunction)
    /\ cancels = MaxCancels

(***************************************************************************)
(* Certificate selection, as the specification words it: a certificate     *)
(* matches a url when the hostnames are equal and the ports are equal, a   *)
(* port that is not given counting as 443.                                 *)
(***************************************************************************)
PortOrDefault(port) == IF port = "" THEN 443 ELSE ParseInt(port).value
Matches(certificate, url) ==
    /\ certificate.host.hostname = url.hostname
    /\ PortOrDefault(certificate.host.port) = PortOrDefault(url.port)

\* The same, a port of 0 counting as 443 as well.
PortOrDefaultOrZero(port) == IF port \in {"", "0"} THEN 443 ELSE ParseInt(port).value
MatchesOrZero(certificate, url) ==
    /\ certificate.host.hostname = url.hostname
    /\ PortOrDefaultOrZero(certificate.host.port) = PortOrDefaultOrZero(url.port)

\* The sends whose config is built, and the url it is built for.
Configured(s) == pc[s] = "cookie"
Target(s) == PrepareUrl(request[s].url)
CertIndexes == DOMAIN workspace

EnabledMatches(s) ==
    {i \in CertIndexes : Matches(workspace[i], Target(s)) /\ ~workspace[i].disabled}
FirstEnabledMatch(s) ==
    CHOOSE i \in EnabledMatches(s) : \A j \in EnabledMatches(s) : i <= j

C10_EnabledAfterDisabled ==
    \A s \in Sends :
        (/\ Configured(s)
         /\ EnabledMatches(s) # {}
         /\ \E i \in CertIndexes :
                /\ i < FirstEnabledMatch(s)
                /\ Matches(workspace[i], Target(s)) /\ workspace[i].disabled)
            => frame[s].tls = TlsOf(workspace[FirstEnabledMatch(s)])

(***************************************************************************)
(* The success path: the Responses created from a response of the server,  *)
(* pending or stored, and the Set-Cookie values setCookieSync accepts.     *)
(***************************************************************************)
IsSuccess(r) == "encoding" \in DOMAIN r
StoredSuccess(s) == {i \in DOMAIN responses[s] : IsSuccess(responses[s][i])}
Parsable(setCookie) == {i \in DOMAIN setCookie : setCookie[i] # "bad"}
Succeeded(s) == \E a \in Attempts : req[s][a] = "ok"

(***************************************************************************)
(* C11.  On a successful response the cookie jar is persisted exactly once *)
(* when at least one Set-Cookie header was applied to the jar, and not at  *)
(* all otherwise (no Set-Cookie header, or none that parses); never more   *)
(* than once per send.                                                     *)
(***************************************************************************)
C11_JarPersistedIffApplied ==
    \A s \in Sends :
        /\ jarUpdates[s] <= 1
        /\ \A i \in StoredSuccess(s) :
               jarUpdates[s] = IF Parsable(responses[s][i].headers) # {} THEN 1 ELSE 0

(***************************************************************************)
(* C12.  A success Response is created only after the jar update of its    *)
(* exchange has completed: whenever a success Response carrying Set-Cookie *)
(* headers is pending or stored, the send is past its jar update and the   *)
(* update has been made; and the step that calls create for it is the one  *)
(* in which the update returns.                                            *)
(***************************************************************************)
C12_JarUpdated ==
    \A s \in Sends :
        /\ \A i \in Queued(s, "success") :
               Len(dbQueue[i].patch.headers) > 0 =>
                   jarUpdates[s] = 1 /\ pc[s] \notin {"inflight", "cookiesFromJar", "jarUpdate"}
        /\ \A i \in StoredSuccess(s) :
               Len(responses[s][i].headers) > 0 =>
                   jarUpdates[s] = 1 /\ pc[s] \notin {"inflight", "cookiesFromJar", "jarUpdate"}
        /\ (Succeeded(s) /\ pc[s] \in {"cookiesFromJar", "jarUpdate"}) =>
               /\ jarUpdates[s] = 0
               /\ Queued(s, "success") = {} /\ StoredSuccess(s) = {}

C12_CreateStep ==
    \A s \in Sends :
        (Queued(s, "success") = {} /\ Queued(s, "success")' # {}) =>
            LET call == dbQueue'[Len(dbQueue')] IN
            /\ call.send = s /\ call.then = "success"
            /\ IF Len(call.patch.headers) > 0
               THEN /\ pc[s] = "jarUpdate"
                    /\ jarUpdates'[s] = jarUpdates[s] + 1
                    /\ cookieJarDoc' = frame[s].jar
               ELSE pc[s] = "inflight" /\ jarUpdates'[s] = jarUpdates[s]

C12_CookiesBeforePersistence == []C12_JarUpdated /\ [][C12_CreateStep]_vars

\* Both Set-Cookie headers applied, the jar updated, the Response stored.
C12_Witness ==
    /\ pc["req_1"] = "done"
    /\ StoredSuccess("req_1") = {1}
    /\ responses["req_1"][1].headers = <<"a=1", "b=2">>
    /\ jarUpdates["req_1"] = 1
    /\ promise["req_1"][0] = Resolved(responses["req_1"][1])

(***************************************************************************)
(* C13.  Every transport call is made with the url whose host swapHost     *)
(* replaced by an address, the rest of the url kept; every Response        *)
(* created after the lookup (success, transport error, cancelled, on any   *)
(* attempt) carries the url as it was before; and the cookies set from     *)
(* Set-Cookie headers are stored for the host of the url as it was before. *)
(***************************************************************************)
AfterDns == {"success", "transportError", "cancelled"}

C13_OriginalUrlRecorded ==
    \A s \in Sends :
        /\ Target(s).hostname \notin AddressFamilies
        /\ \A i \in Dispatches(s) :
               /\ dispatchLog[i].url.hostname \in AddressFamilies
               /\ dispatchLog[i].forceIPv4 => dispatchLog[i].url.hostname = "ipv4"
               /\ dispatchLog[i].url = [Target(s) EXCEPT !.hostname = dispatchLog[i].url.hostname]
        /\ \A i \in DOMAIN dbQueue :
               (dbQueue[i].send = s /\ dbQueue[i].then \in AfterDns) =>
                   dbQueue[i].patch.url = Target(s)
        /\ \A i \in DOMAIN responses[s] :
               (IsSuccess(responses[s][i]) \/ HasStatus(responses[s][i], "Error")
                    \/ IsCancelled(responses[s][i])) =>
                   (IsConfigError(responses[s][i]) \/ responses[s][i].url = Target(s))
        /\ \A c \in frame[s].jar \cup cookieJarDoc : c.domain \in Hostnames
        /\ \A i \in StoredSuccess(s) : \A k \in Parsable(responses[s][i].headers) :
               Cookie(responses[s][i].headers[k], Target(s)) \in cookieJarDoc

\* The retried attempt was sent to the IPv4 address and answered with cookies.
C13_Witness ==
    /\ Cardinality(Dispatches("req_1")) = 2
    /\ \E i \in Dispatches("req_1") :
           dispatchLog[i].attempt = 2 /\ dispatchLog[i].url.hostname = "ipv4"
    /\ StoredSuccess("req_1") # {}
    /\ Cookie("a=1", Target("req_1")) \in cookieJarDoc
    /\ \A i \in StoredSuccess("req_1") : responses["req_1"][i].url.hostname = "a.com"

(***************************************************************************)
(* C14.  The step that sets the cookie header: with a cookie string that   *)
(* is not empty and config headers that have a name equal to "cookie"      *)
(* whatever its case, one such header gets the value old value, "; ",      *)
(* cookie string under its name as spelled, and the headers are otherwise  *)
(* as they were, none added; with a cookie string and no such header, a    *)
(* header Cookie with the cookie string is added at the end; with an empty *)
(* cookie string the headers are as they were.                             *)
(***************************************************************************)
CookieNamed(headers) == {i \in DOMAIN headers : ToLowerCase(headers[i].name) = "cookie"}

C14_MergeStep ==
    \A s \in Sends :
        (pc[s] = "cookie" /\ pc'[s] = "dns") =>
            LET old == frame[s].headers
                new == frame'[s].headers
                cookieString == CookieHeaderValueForUri(frame[s].cookies, Target(s))
            IN  IF cookieString = "" THEN new = old
                ELSE IF CookieNamed(old) = {}
                THEN new = Append(old, Header("Cookie", cookieString))
                ELSE /\ Len(new) = Len(old)
                     /\ \E i \in CookieNamed(old) :
                            /\ new[i] = Header(old[i].name,
                                               old[i].value \o "; " \o cookieString)
                            /\ \A j \in DOMAIN old : j # i => new[j] = old[j]

C14_CookieMerge == [][C14_MergeStep]_vars

\* The cookie string of two cookies appended to the header the request gave.
C14_Witness ==
    /\ pc["req_1"] = "dns"
    /\ \E i \in DOMAIN frame["req_1"].headers :
           frame["req_1"].headers[i] = Header("cookie", "v2; s=0; a=1")
    /\ Cardinality(CookieNamed(frame["req_1"].headers)) = 1

(***************************************************************************)
(* C16.  The headers of a config that was built have exactly one header    *)
(* whose name is "host" whatever its case, and its value is the host of    *)
(* the config's url, whatever headers the request has.                     *)
(***************************************************************************)
HostNamed(headers) == {i \in DOMAIN headers : ToLowerCase(headers[i].name) = "host"}

C16_OneHostHeader ==
    \A s \in Sends :
        pc[s] \in {"cookie", "dns"} =>
            /\ Cardinality(HostNamed(frame[s].headers)) = 1
            /\ \A i \in HostNamed(frame[s].headers) :
                   frame[s].headers[i].value = HostOf(Target(s))

(***************************************************************************)
(* C15.  A Set-Cookie header that does not parse is skipped: after a       *)
(* response of the server, whatever its Set-Cookie headers, every header   *)
(* that parses is in the jar and then in the stored jar, no cookie comes   *)
(* of one that does not, no further attempt is made, no Error Response is  *)
(* created, the success Response is created and stored, and the promise   *)
(* is resolved with it; it is rejected only by a cancellation, with the    *)
(* Cancelled error.                                                        *)
(***************************************************************************)
CookiesOf(setCookie, url) == {Cookie(setCookie[k], url) : k \in Parsable(setCookie)}

C15_ParseFailureSkipped ==
    \A s \in Sends : \A a \in Attempts :
        req[s][a] = "ok" =>
            /\ attempts[s] = a
            /\ Queued(s, "transportError") = {} /\ Queued(s, "configError") = {}
            /\ StoredError(s) = {}
            /\ \A c \in frame[s].jar \cup cookieJarDoc : c.value # "bad"
            /\ promise[s][a].state = "rejected" =>
                   promise[s][a] = Rejected(CancelledError) /\ StoredCancelled(s) # {}
            /\ promise[s][a].state = "resolved" =>
                   \E i \in StoredSuccess(s) : promise[s][a].value = responses[s][i]
            /\ pc[s] \in {"cookiesFromJar", "jarUpdate", "create", "done"}
            /\ pc[s] \in {"cookiesFromJar", "jarUpdate"} =>
                   CookiesOf(frame[s].networkResponse.setCookie, Target(s)) \subseteq frame[s].jar
            /\ pc[s] = "create" => Cardinality(Queued(s, "success")) = 1
            /\ pc[s] = "done" =>
                   /\ Cardinality(StoredSuccess(s)) = 1
                   /\ \A i \in StoredSuccess(s) :
                          /\ responses[s][i].statusCode = 200
                          /\ CookiesOf(responses[s][i].headers, Target(s)) \subseteq cookieJarDoc
                          /\ ~Targeted(s) => promise[s][0] = Resolved(responses[s][i])

\* A header that does not parse before one that does: the second is stored.
C15_Witness ==
    /\ pc["req_1"] = "done"
    /\ StoredSuccess("req_1") = {1}
    /\ responses["req_1"][1].headers = <<"bad", "b=2">>
    /\ Cookie("b=2", Target("req_1")) \in cookieJarDoc
    /\ promise["req_1"][0] = Resolved(responses["req_1"][1])

(***************************************************************************)
(* C17.  updateMimeType with a mime type (not the empty one, which removes *)
(* the entry) on a request whose headers have an entry named Content-Type  *)
(* in any case replaces the value of one such entry and nothing else: the  *)
(* list keeps its length and order, the entry keeps its name as spelled,   *)
(* and every other entry, one without a name or a null one too, is as it   *)
(* was; the request is stored with these headers.                          *)
(***************************************************************************)
ContentTypeNamed(headers) == {i \in DOMAIN headers : IsContentType(headers[i])}

C17_UpdateStep ==
    \A s \in Sends :
        LET old == request[s].headers
            new == newRequest'[s].headers
            mimeType == newRequest'[s].mimeType
        IN  (newRequest'[s] # newRequest[s] /\ mimeType # "" /\ ContentTypeNamed(old) # {}) =>
                /\ Len(new) = Len(old)
                /\ \E i \in ContentTypeNamed(old) :
                       /\ new[i] = Header(old[i].name, mimeType)
                       /\ \A j \in DOMAIN old : j # i => new[j] = old[j]
                /\ request'[s].headers = new

C17_ReplacedInPlace == [][C17_UpdateStep]_vars

\* The list of the test 'replaces header when exists', updated to text/html.
C17_Witness ==
    /\ newRequest["req_1"].updated
    /\ newRequest["req_1"].mimeType = "text/html"
    /\ newRequest["req_1"].headers =
           <<Header("content-tYPE", "text/html"), Header("foo", "bar"), NoName, NullEntry>>

(***************************************************************************)
(* C18.  The config is built anew for each attempt from the request as     *)
(* rendered: every transport call of a send is made with the same headers, *)
(* the Cookie header of the retry being that of the first attempt, the     *)
(* jar's cookie string in it once; the TLS material of the attempt is the  *)
(* one selected for the request's url; and no step changes the headers of  *)
(* the request.                                                            *)
(***************************************************************************)
C18_SameHeaders ==
    \A s \in Sends :
        /\ \A i, j \in Dispatches(s) : dispatchLog[i].headers = dispatchLog[j].headers
        /\ \A i \in Dispatches(s) :
               LET sent == dispatchLog[i].headers
                   built == BuildRequestConfig(RenderedRequest(s)).headers
               IN  /\ Cardinality(CookieNamed(sent)) = 1
                   /\ \A k \in DOMAIN built :
                          ToLowerCase(built[k].name) # "cookie" => sent[k] = built[k]
        /\ pc[s] \in {"cookie", "dns", "inflight"} =>
               frame[s].tls = SelectTls(workspace, Target(s))

C18_RequestStep == \A s \in Sends : request'[s] = request[s]

C18_FreshConfig == []C18_SameHeaders /\ [][C18_RequestStep]_vars

\* The retry of req_1 was sent with the cookie header of the first attempt.
C18_Witness ==
    /\ Cardinality(Dispatches("req_1")) = 2
    /\ \A i \in Dispatches("req_1") :
           dispatchLog[i].headers = <<Header("cookie", "x=0; s=0"), Header("host", "a.com")>>
    /\ request["req_1"].headers = <<Header("cookie", "x=0")>>
    /\ req["req_1"][2] = "inflight"

(***************************************************************************)
(* C19.  Once a send is rejected with the Cancelled error, no transport    *)
(* call is made for it any more and no Response is stored for it any more. *)
(***************************************************************************)
C19_CancelledStep ==
    \A s \in Sends :
        promise[s][0] = Rejected(CancelledError) =>
            /\ Dispatches(s)' = Dispatches(s)
            /\ responses'[s] = responses[s]

C19_NothingAfterCancelled == [][C19_CancelledStep]_vars

(***************************************************************************)
(* C20.  Whenever the promise of send() or of an _actuallySend is settled, *)
(* the Response of that outcome is stored for the request: the Response it *)
(* was resolved with (success, config error, render failure), the Error    *)
(* Response with the message of the error it was rejected with, or the     *)
(* Cancelled Response when it was rejected with the Cancelled error.       *)
(***************************************************************************)
C20_PersistedBeforeDelivered ==
    \A s \in Sends : \A a \in 0..MaxAttempts :
        /\ promise[s][a].state = "resolved" =>
               \E i \in DOMAIN responses[s] :
                   /\ responses[s][i] = promise[s][a].value
                   /\ IsSuccess(responses[s][i]) \/ IsConfigError(responses[s][i])
                          \/ IsRenderFailed(responses[s][i])
        /\ promise[s][a].state = "rejected" =>
               IF promise[s][a].value = CancelledError
               THEN StoredCancelled(s) # {}
               ELSE \E i \in StoredError(s) :
                        /\ ~IsConfigError(responses[s][i])
                        /\ responses[s][i].error = ErrorMessage(promise[s][a].value)

\* req_1 resolved with its stored success Response, req_2 rejected with the
\* error of its stored Error Response.
C20_Witness ==
    /\ StoredSuccess("req_1") = {1}
    /\ promise["req_1"][0] = Resolved(responses["req_1"][1])
    /\ StoredError("req_2") = {1}
    /\ promise["req_2"][0] = Rejected(ErrorWithCode("ECONNREFUSED"))

(***************************************************************************)
(* C21.  Every _actuallySend that was invoked eventually has its promise   *)
(* settled; a settled promise never changes; and it is resolved with a     *)
(* success or config-error Response, or rejected with the Cancelled error  *)
(* or with a transport error that was terminal for its send.               *)
(***************************************************************************)
Invoked(s, a) == attempts[s] >= a
Settled(s, a) == promise[s][a].state # "pending"

C21_Outcome ==
    \A s \in Sends : \A a \in Attempts :
        /\ Settled(s, a) => Invoked(s, a)
        /\ promise[s][a].state = "resolved" =>
               IsSuccess(promise[s][a].value) \/ IsConfigError(promise[s][a].value)
        /\ promise[s][a].state = "rejected" =>
               \/ promise[s][a].value = CancelledError
               \/ /\ promise[s][a].value \in TransportErrors
                  /\ \E b \in Attempts :
                         /\ req[s][b] = promise[s][a].value.code
                         /\ ~ShouldFallBack(Forced(s, b), promise[s][a].value)

C21_OnceStep ==
    \A s \in Sends : \A a \in Attempts :
        Settled(s, a) => promise'[s][a] = promise[s][a]

C21_EventuallySettles ==
    /\ \A s \in Sends : \A a \in Attempts : Invoked(s, a) ~> Settled(s, a)
    /\ []C21_Outcome
    /\ [][C21_OnceStep]_vars

\* The retry of req_1 was aborted in flight and its promise rejected.
C21_Witness ==
    /\ req["req_1"][2] = "aborted"
    /\ promise["req_1"][2] = Rejected(CancelledError)
    /\ promise["req_1"][1] = Rejected(CancelledError)

=============================================================================
